---- MODULE Spec2Model ----
(***************************************************************************)
(* Model of the search pipeline of search_engine_v1:                       *)
(*   - crawler_and_scraper.py : RobustAsyncCrawler (asyncio worker pool)   *)
(*   - indexer.py             : Indexer.load_scraped / run / save_chunk    *)
(*                                                                         *)
(* The crawler runs on one asyncio event loop: a task runs without         *)
(* interruption until it reaches an await that really suspends.  The       *)
(* variable `running` is the task the loop is executing (0: the loop is    *)
(* choosing the next ready task); a pc in YieldPcs is a suspension point.  *)
(***************************************************************************)
EXTENDS Integers, Sequences, FiniteSets, TLC

\* ------------------------------------------------------------------ bounds
NumWorkers == 2               \* cfg.max_global_workers
NumUrls == 3                  \* size of the web the crawl can reach
MaxSeeds == 2                 \* longest start_urls list
MaxHrefs == 2                 \* most <a href> elements on one page
MaxIOErrors == 1              \* most file errors in one run
MaxLines == 3                 \* longest scraped log handed to the indexer
MaxIndexerRuns == 2           \* indexer runs over the same index file
MaxFactor == 1                \* largest factors_total of a document
MaxText == 7                  \* longest text handed to tokenize
MaxRecords == 3               \* longest index file handed to the searcher
MaxScore == 1                 \* largest raw BM25 score of a document

\* --------------------------------------------------- CrawlerConfig (scaled)
max_total_urls == 2
save_chunk_size == 2
max_concurrent_per_host == 1
max_retries == 2
retry_backoff == 2
delay_between_requests == 1

\* ------------------------------------------------ IndexerController (scaled)
index_chunk_size == 2         \* IndexerController.save_chunk_size
MaxLimit == 2                 \* largest IndexerController.limit tried
pagerank_iterations == 2
\* pagerank_damping = DampNum / DampDen
DampNum == 1
DampDen == 2

Workers == 1..NumWorkers
URLS == 1..NumUrls

\* urlparse(url).netloc : URLs 1,2 live on host 1, URLs 3,4 on host 2, ...
Host(u) == (u + 1) \div 2
HOSTS == {Host(u) : u \in URLS}
SameHost(u) == {v \in URLS : Host(v) = Host(u)}

\* urlparse(url).scheme : on every host the odd URLs are http, the even ones
\* https; an origin is a scheme with a host
Scheme(u) == IF u % 2 = 1 THEN "http" ELSE "https"
Origin(u) == <<Scheme(u), Host(u)>>
ORIGINS == {Origin(u) : u \in URLS}

Range(s) == {s[i] : i \in DOMAIN s}
SeqsUpTo(S, n) == UNION {[1..k -> S] : k \in 0..n}

\* list with the first occurrence of every element kept (parse: "not in links")
RECURSIVE Dedup(_)
Dedup(s) ==
    IF s = <<>> THEN <<>>
    ELSE LET r == Dedup(SubSeq(s, 1, Len(s) - 1))
             x == s[Len(s)]
         IN IF x \in Range(r) THEN r ELSE Append(r, x)

\* A page is the list of the targets of its <a href> elements.
Pages == SeqsUpTo(URLS, MaxHrefs)

\* RobustAsyncCrawler.parse: links_found = same-host targets, deduplicated
ParseLinks(page, u) ==
    Dedup(SelectSeq(page, LAMBDA v : Host(v) = Host(u)))

VARIABLES
    \* --- RobustAsyncCrawler fields
    start_urls, respect_robots,
    queue, unfinished, visited_urls, data_buffer, urls_crawled_count,
    should_stop, file_lock, buffer_lock, domain_semaphores,
    robots_cache, robots_lock,
    \* --- files
    visited_file, scraped_file,
    \* --- tasks
    phase, running, pc, url, attempt, wait_time, data, answer,
    \* --- history (observation only)
    prior_visited, prior_scraped,
    loaded, dispatched, emitted, requests, append_failed, robots_requests,
    perm_failed, io_errors,
    \* --- Indexer (indexer.py)
    idx_pc, idx_runs, limit, docs, url_to_idx, index_file, indexed_buffer,
    indexed_count, idx_i,
    \* --- the documents of the scraped log and the IndexerController
    links_found, factors_total, language,
    bm25_enabled, weight_pagerank, weight_factors, clamp_final_score_0_100,
    \* --- Indexer: link graph, PageRank, factors
    graph_out, pr, pr_rounds, pagerank, factors_scores,
    \* --- Searcher (search.py) and its SearchController
    search_pc, s_docs, order, results_limit, query, bm25_scores, results,
    \* --- tokenize (indexer.py, search.py) applied to a text and to its output
    tok_pc, text, tokens, s_tokens, retokens, s_retokens

crawlerVars == <<start_urls, respect_robots,
    queue, unfinished, visited_urls, data_buffer, urls_crawled_count,
    should_stop, file_lock, buffer_lock, domain_semaphores,
    robots_cache, robots_lock, visited_file, scraped_file,
    phase, running, pc, url, attempt, wait_time, data, answer,
    prior_visited, prior_scraped, loaded, dispatched, emitted, requests,
    append_failed, robots_requests,
    perm_failed, io_errors>>

corpusV == <<links_found, factors_total, language, bm25_enabled,
             weight_pagerank, weight_factors, clamp_final_score_0_100>>
rankV == <<graph_out, pr, pr_rounds, pagerank, factors_scores>>

indexerVars == <<idx_pc, idx_runs, limit, docs, url_to_idx, index_file,
                 indexed_buffer, indexed_count, idx_i, corpusV, rankV>>

searchCfgV == <<order, results_limit>>
searchV == <<search_pc, s_docs, searchCfgV, query, bm25_scores, results>>
tokV == <<tok_pc, text, tokens, s_tokens, retokens, s_retokens>>

vars == <<crawlerVars, indexerVars, searchV, tokV>>

\* what the indexer leaves alone
restV == <<crawlerVars, searchV, tokV>>

cfgV == <<start_urls, respect_robots, prior_visited, prior_scraped,
          indexerVars, searchV, tokV>>
envV == <<cfgV, io_errors>>

\* the outcomes of a file operation: TRUE, and FALSE (an OSError) while the
\* run has seen fewer than MaxIOErrors of them
IOOutcomes == IF io_errors < MaxIOErrors THEN BOOLEAN ELSE {TRUE}
IOCount(ok) == io_errors' = IF ok THEN io_errors ELSE io_errors + 1

queueV == <<queue, unfinished>>
robotsV == <<robots_cache, robots_lock, robots_requests>>
bufV == <<data_buffer, buffer_lock, scraped_file, emitted>>
visV == <<visited_urls, visited_file, file_lock, dispatched, append_failed,
          loaded>>
countV == <<urls_crawled_count, should_stop>>
fetchV == <<attempt, wait_time, requests, perm_failed, answer>>

\* pcs at which a worker is suspended in an await
YieldPcs == {"get", "got", "save_visited", "robots_wait", "robots_fetch",
             "sem_wait", "delay", "fetch", "backoff", "append_wait",
             "save_wait", "flushing", "done"}

At(w, p) ==
    /\ phase = "workers"
    /\ pc[w] = p
    /\ running = (IF p \in YieldPcs THEN 0 ELSE w)

Goto(w, p) ==
    /\ pc' = [pc EXCEPT ![w] = p]
    /\ running' = (IF p \in YieldPcs THEN 0 ELSE w)

\* a loop test that does not look at the stop flag
LoopTest_Ignore(stop) == "get"

\* `while not self.should_stop:` followed by the queue.get() of the next turn
LoopTest(stop) == IF stop THEN "done" ELSE "get"

\* ------------------------------------------------------------------- Init
\* Files a previous run left behind: a visited log and a scraped log whose
\* URLs are all in the visited log.
PriorVisited == {<<>>} \cup {<<u>> : u \in URLS}
SeedLists ==
    {s \in SeqsUpTo(URLS, MaxSeeds) :
        s # <<>> /\ \A i, j \in DOMAIN s : i < j => s[i] < s[j]}

\* ============================================================== tokenize
\* A text is a sequence of characters.  The characters tried: two letters,
\* an upper-case letter, the hyphen, the space, and a character outside the
\* class [a-z0-9...\- ] (punctuation, a tab, a line end).
Chars == {"d", "i", "D", "-", " ", "!"}
Texts == SeqsUpTo(Chars, MaxText)

\* the stopwords that can be written with these letters
STOPWORDS == {<<"d", "i", "d">>}

\* str.lower
Lower(t) == [k \in DOMAIN t |-> IF t[k] = "D" THEN "d" ELSE t[k]]

\* the class [a-z0-9...\- ] under re.IGNORECASE
InClass(c) == c \in {"d", "i", "D", "-", " "}

\* re.sub(r"[^...]+", " ", text): every run outside the class becomes one
\* space
RECURSIVE ReSub(_)
ReSub(t) ==
    IF t = <<>> THEN <<>>
    ELSE IF InClass(t[1]) THEN <<t[1]>> \o ReSub(Tail(t))
    ELSE IF Len(t) > 1 /\ ~InClass(t[2]) THEN ReSub(Tail(t))
    ELSE <<" ">> \o ReSub(Tail(t))

\* str.split(): the maximal runs without a space (cur is the run being read)
RECURSIVE SplitFrom(_, _)
SplitFrom(t, cur) ==
    IF t = <<>> THEN (IF cur = <<>> THEN <<>> ELSE <<cur>>)
    ELSE IF t[1] = " "
    THEN (IF cur = <<>> THEN <<>> ELSE <<cur>>) \o SplitFrom(Tail(t), <<>>)
    ELSE SplitFrom(Tail(t), Append(cur, t[1]))
Split(t) == SplitFrom(t, <<>>)

\* " ".join(tokens)
RECURSIVE Join(_)
Join(ts) ==
    IF ts = <<>> THEN <<>>
    ELSE IF Len(ts) = 1 THEN ts[1]
    ELSE ts[1] \o <<" ">> \o Join(Tail(ts))

\* a tokenizer that lower-cases after it has dropped the stopwords
tokenize_LateLower(t) ==
    IF t = <<>> THEN <<>>
    ELSE LET words == Split(ReSub(t))
             long == SelectSeq(words, LAMBDA w : Len(w) >= 3)
             kept == SelectSeq(long, LAMBDA w : w \notin STOPWORDS)
         IN [k \in DOMAIN kept |-> Lower(kept[k])]

\* indexer.py tokenize (t.strip() of an item of split() is the item)
tokenize(t) ==
    IF t = <<>> THEN <<>>
    ELSE LET words == Split(ReSub(Lower(t)))
             long == SelectSeq(words, LAMBDA w : Len(w) >= 3)
         IN SelectSeq(long, LAMBDA w : w \notin STOPWORDS)

\* search.py tokenize
search_tokenize(t) ==
    IF t = <<>> THEN <<>>
    ELSE LET words == Split(ReSub(Lower(t)))
             long == SelectSeq(words, LAMBDA w : Len(w) >= 3)
         IN SelectSeq(long, LAMBDA w : w \notin STOPWORDS)

\* no text has been tokenized
TokIdle ==
    /\ tok_pc = "idle"
    /\ text = <<>>
    /\ tokens = <<>>
    /\ s_tokens = <<>>
    /\ retokens = <<>>
    /\ s_retokens = <<>>

\* the searcher has not been started
SearchIdle ==
    /\ search_pc = "idle"
    /\ s_docs = <<>>
    /\ order = "desc"
    /\ results_limit = 0
    /\ query = <<>>
    /\ bm25_scores = <<>>
    /\ results = <<>>

\* Numbers that the code keeps as floats are exact fractions <<n, d>> with
\* d > 0, in lowest terms.
Abs(x) == IF x < 0 THEN -x ELSE x

RECURSIVE GCD(_, _)
GCD(a, b) == IF b = 0 THEN a ELSE GCD(b, a % b)

Frac(n, d) == LET g == GCD(Abs(n), d) IN <<n \div g, d \div g>>
RAdd(x, y) == Frac(x[1] * y[2] + y[1] * x[2], x[2] * y[2])
RMul(x, y) == Frac(x[1] * y[1], x[2] * y[2])
RLess(x, y) == x[1] * y[2] < y[1] * x[2]
RLeq(x, y) == x[1] * y[2] <= y[1] * x[2]
RMin(x, y) == IF RLess(y, x) THEN y ELSE x
RMax(x, y) == IF RLess(x, y) THEN y ELSE x
Zero == <<0, 1>>
One == <<1, 1>>
Hundred == <<100, 1>>

\* IndexerController defaults: weight_pagerank = 0.45, weight_factors = 0.55
DefaultWeights == <<(<<9, 20>>), (<<11, 20>>)>>

\* no indexer is running
IndexerStopped ==
    /\ idx_pc = "idle"
    /\ idx_runs = 0
    /\ limit = 0
    /\ docs = <<>>
    /\ url_to_idx = [u \in {} |-> 0]
    /\ indexed_buffer = <<>>
    /\ indexed_count = 0
    /\ idx_i = 0
    /\ links_found = [u \in URLS |-> {}]
    /\ factors_total = [u \in URLS |-> 0]
    /\ language = [u \in URLS |-> "unknown"]
    /\ bm25_enabled = TRUE
    /\ weight_pagerank = DefaultWeights[1]
    /\ weight_factors = DefaultWeights[2]
    /\ clamp_final_score_0_100 = TRUE
    /\ graph_out = <<>>
    /\ pr = <<>>
    /\ pr_rounds = 0
    /\ pagerank = <<>>
    /\ factors_scores = <<>>

\* the indexer has not been started
IndexerIdle ==
    /\ IndexerStopped
    /\ index_file = <<>>

Init ==
    /\ IndexerIdle
    /\ SearchIdle
    /\ TokIdle
    /\ start_urls \in SeedLists
    /\ respect_robots \in BOOLEAN
    /\ visited_file \in PriorVisited
    /\ scraped_file \in {<<>>, visited_file}
    /\ prior_visited = Len(visited_file)
    /\ prior_scraped = Len(scraped_file)
    /\ queue = <<>>
    /\ unfinished = 0
    /\ visited_urls = {}
    /\ data_buffer = <<>>
    /\ urls_crawled_count = 0
    /\ should_stop = FALSE
    /\ file_lock = <<>>
    /\ buffer_lock = <<>>
    /\ domain_semaphores = [h \in HOSTS |-> max_concurrent_per_host]
    /\ robots_cache = [h \in {} |-> {}]
    /\ robots_lock = <<>>
    /\ phase = "init"
    /\ running = 0
    /\ pc = [w \in Workers |-> "get"]
    /\ url = [w \in Workers |-> 0]
    /\ attempt = [w \in Workers |-> 0]
    /\ wait_time = [w \in Workers |-> 0]
    /\ data = [w \in Workers |-> <<>>]
    /\ answer = [w \in Workers |-> "none"]
    /\ loaded = {}
    /\ dispatched = <<>>
    /\ emitted = <<>>
    /\ requests = [u \in URLS |-> 0]
    /\ append_failed = {}
    /\ robots_requests = [o \in ORIGINS |-> 0]
    /\ perm_failed = {}
    /\ io_errors = 0

\* ------------------------------------------------------------ run(): start
\* init_state: reload the visited set from the visited log (a read error is
\* logged and leaves the set empty), then enqueue the seeds not yet visited.
InitState ==
    /\ phase = "init"
    /\ \E ok \in IOOutcomes :
         LET vis == IF ok THEN Range(visited_file) ELSE {}
             q == SelectSeq(start_urls, LAMBDA u : u \notin vis)
         IN /\ IOCount(ok)
            /\ visited_urls' = vis
            /\ loaded' = vis
            /\ queue' = q
            /\ unfinished' = Len(q)
    /\ phase' = "workers"
    /\ UNCHANGED <<cfgV, robotsV, bufV, countV, fetchV, visited_file,
                   file_lock, dispatched, append_failed, domain_semaphores,
                   running, pc, url, data>>

\* ----------------------------------------------------------------- worker
\* url = await asyncio.wait_for(self.queue.get(), timeout=5.0)
Dequeue(w) ==
    /\ At(w, "get")
    /\ queue # <<>>
    /\ url' = [url EXCEPT ![w] = Head(queue)]
    /\ queue' = Tail(queue)
    /\ Goto(w, "got")
    /\ UNCHANGED <<envV, unfinished, robotsV, bufV, visV, countV, fetchV,
                   domain_semaphores, phase, data>>

\* a timeout handler that leaves the loop whatever the queue holds
GetTimeout_Always(w) ==
    /\ At(w, "get")
    /\ Goto(w, "done")
    /\ UNCHANGED <<envV, queueV, robotsV, bufV, visV, countV, fetchV,
                   domain_semaphores, phase, url, data>>

\* except asyncio.TimeoutError: break when the queue is empty or the stop
\* flag is set (otherwise `continue`, which changes nothing)
GetTimeout(w) ==
    /\ At(w, "get")
    /\ queue = <<>> \/ should_stop
    /\ Goto(w, "done")
    /\ UNCHANGED <<envV, queueV, robotsV, bufV, visV, countV, fetchV,
                   domain_semaphores, phase, url, data>>

\* a visited test that never finds the URL
AlreadyVisited_Never(u) == FALSE

\* `if url in self.visited_urls:`
AlreadyVisited(u) == u \in visited_urls

\* lines 250-260: stop check, visited check, visited_urls.add, and the call
\* of save_visited up to its acquisition of file_lock
AfterGet(w) ==
    /\ At(w, "got")
    /\ IF should_stop
       THEN /\ unfinished' = unfinished - 1
            /\ url' = [url EXCEPT ![w] = 0]
            /\ Goto(w, "done")
            /\ UNCHANGED <<visited_urls, dispatched, file_lock>>
       ELSE IF AlreadyVisited(url[w])
       THEN /\ unfinished' = unfinished - 1
            /\ url' = [url EXCEPT ![w] = 0]
            /\ Goto(w, LoopTest(should_stop))
            /\ UNCHANGED <<visited_urls, dispatched, file_lock>>
       ELSE /\ visited_urls' = visited_urls \cup {url[w]}
            /\ dispatched' = Append(dispatched, url[w])
            /\ file_lock' = Append(file_lock, w)
            /\ Goto(w, "save_visited")
            /\ UNCHANGED <<unfinished, url>>
    /\ UNCHANGED <<envV, queue, robotsV, bufV, countV, fetchV, visited_file,
                   append_failed, loaded, domain_semaphores, phase, data>>

\* a save_visited that returns without writing
WriteVisited_NoWrite(w) ==
    /\ At(w, "save_visited")
    /\ Head(file_lock) = w
    /\ file_lock' = Tail(file_lock)
    /\ Goto(w, "robots_check")
    /\ UNCHANGED <<envV, queueV, robotsV, bufV, countV, fetchV, visited_urls,
                   visited_file, append_failed, dispatched, loaded,
                   domain_semaphores, phase, url, data>>

\* a file_lock that lets in any of its waiters
WriteVisited_AnyWaiter(w) ==
    /\ At(w, "save_visited")
    /\ \E ok \in IOOutcomes :
         /\ IOCount(ok)
         /\ IF ok
            THEN /\ visited_file' = Append(visited_file, url[w])
                 /\ UNCHANGED append_failed
            ELSE /\ append_failed' = append_failed \cup {url[w]}
                 /\ UNCHANGED visited_file
    /\ file_lock' = SelectSeq(file_lock, LAMBDA x : x # w)
    /\ Goto(w, "robots_check")
    /\ UNCHANGED <<cfgV, queueV, robotsV, bufV, countV, fetchV, visited_urls,
                   dispatched, loaded, domain_semaphores, phase, url, data>>

\* save_visited: under file_lock append one line; an I/O error is logged
WriteVisited(w) ==
    /\ At(w, "save_visited")
    /\ Head(file_lock) = w
    /\ \E ok \in IOOutcomes :
         /\ IOCount(ok)
         /\ IF ok
            THEN /\ visited_file' = Append(visited_file, url[w])
                 /\ UNCHANGED append_failed
            ELSE /\ append_failed' = append_failed \cup {url[w]}
                 /\ UNCHANGED visited_file
    /\ file_lock' = Tail(file_lock)
    /\ Goto(w, "robots_check")
    /\ UNCHANGED <<cfgV, queueV, robotsV, bufV, countV, fetchV, visited_urls,
                   dispatched, loaded, domain_semaphores, phase, url, data>>

\* `if self.cfg.respect_robots:` and RobotsTxtCache.can_fetch up to the lock
RobotsCheck(w) ==
    /\ At(w, "robots_check")
    /\ IF respect_robots
       THEN /\ robots_lock' = Append(robots_lock, w)
            /\ Goto(w, IF robots_lock = <<>> THEN "robots_locked"
                                             ELSE "robots_wait")
       ELSE /\ Goto(w, "sem_acquire")
            /\ UNCHANGED robots_lock
    /\ UNCHANGED <<envV, queueV, robots_cache, robots_requests, bufV, visV,
                   countV, fetchV, domain_semaphores, phase, url, data>>

\* the lock is handed to the first waiter
RobotsLockGranted(w) ==
    /\ At(w, "robots_wait")
    /\ Head(robots_lock) = w
    /\ Goto(w, "robots_locked")
    /\ UNCHANGED <<envV, queueV, robotsV, bufV, visV, countV, fetchV,
                   domain_semaphores, phase, url, data>>

\* `if domain not in self.cache:` ... session.get(robots_url), where
\* robots_url is <scheme>://<netloc>/robots.txt of the URL in hand
RobotsLookup(w) ==
    /\ At(w, "robots_locked")
    /\ IF Host(url[w]) \in DOMAIN robots_cache
       THEN /\ Goto(w, "robots_eval")
            /\ UNCHANGED robots_requests
       ELSE /\ robots_requests' =
                  [robots_requests EXCEPT ![Origin(url[w])] = @ + 1]
            /\ Goto(w, "robots_fetch")
    /\ UNCHANGED <<envV, queueV, robots_cache, robots_lock, bufV, visV,
                   countV, fetchV, domain_semaphores, phase, url, data>>

\* `if resp.status == 200: parser.parse(text.splitlines())`, and
\* parser.parse([]) for another status or an exception: no URL disallowed
Permissive(status, dis) == IF status = "robots_200" THEN dis ELSE {}

\* the robots.txt answer: a status, and a body whose rules disallow the
\* URLs in `dis`; the policy is cached under the netloc
RobotsFetched(w) ==
    /\ At(w, "robots_fetch")
    /\ \E status \in {"robots_200", "robots_other"} :
       \E dis \in SUBSET SameHost(url[w]) :
         /\ answer' = [answer EXCEPT ![w] = status]
         /\ robots_cache' =
               [h \in DOMAIN robots_cache \cup {Host(url[w])} |->
                   IF h = Host(url[w]) THEN Permissive(status, dis)
                   ELSE robots_cache[h]]
    /\ Goto(w, "robots_eval")
    /\ UNCHANGED <<envV, queueV, robots_lock, robots_requests, bufV, visV,
                   countV, attempt, wait_time, requests, perm_failed,
                   domain_semaphores, phase, url, data>>

\* a policy lookup that allows every URL
CanFetch_Always(u) == TRUE

\* RobotFileParser.can_fetch of the cached policy of the URL's host
CanFetch(u) == u \notin robots_cache[Host(u)]

\* return self.cache[domain].can_fetch(...); `if not can_fetch:` task_done
RobotsEval(w) ==
    /\ At(w, "robots_eval")
    /\ robots_lock' = Tail(robots_lock)
    /\ IF CanFetch(url[w])
       THEN /\ Goto(w, "sem_acquire")
            /\ UNCHANGED <<unfinished, url>>
       ELSE /\ unfinished' = unfinished - 1
            /\ url' = [url EXCEPT ![w] = 0]
            /\ Goto(w, LoopTest(should_stop))
    /\ answer' = [answer EXCEPT ![w] = "none"]
    /\ UNCHANGED <<envV, queue, robots_cache, robots_requests, bufV, visV,
                   countV, attempt, wait_time, requests, perm_failed,
                   domain_semaphores, phase, data>>

\* what follows the acquisition of the host's semaphore: the delay, or the
\* first request when no delay is configured
AfterAcquire(w) ==
    IF delay_between_requests > 0
    THEN /\ Goto(w, "delay")
         /\ UNCHANGED fetchV
    ELSE /\ Goto(w, "fetch")
         /\ attempt' = [attempt EXCEPT ![w] = 1]
         /\ requests' = [requests EXCEPT ![url[w]] = @ + 1]
         /\ UNCHANGED <<wait_time, perm_failed, answer>>

\* a worker that goes on without taking a slot
SemAcquire_NoSlot(w) ==
    /\ At(w, "sem_acquire")
    /\ AfterAcquire(w)
    /\ UNCHANGED <<envV, queueV, robotsV, bufV, visV, countV, phase, url,
                   data, domain_semaphores>>

\* `async with domain_sem:` (the semaphore of a host is created on first
\* use with max_concurrent_per_host slots)
SemAcquire(w) ==
    /\ At(w, "sem_acquire")
    /\ IF domain_semaphores[Host(url[w])] > 0
       THEN /\ domain_semaphores' =
                  [domain_semaphores EXCEPT ![Host(url[w])] = @ - 1]
            /\ AfterAcquire(w)
       ELSE /\ Goto(w, "sem_wait")
            /\ UNCHANGED <<domain_semaphores, fetchV>>
    /\ UNCHANGED <<envV, queueV, robotsV, bufV, visV, countV, phase, url,
                   data>>

SemGranted(w) ==
    /\ At(w, "sem_wait")
    /\ domain_semaphores[Host(url[w])] > 0
    /\ domain_semaphores' =
           [domain_semaphores EXCEPT ![Host(url[w])] = @ - 1]
    /\ AfterAcquire(w)
    /\ UNCHANGED <<envV, queueV, robotsV, bufV, visV, countV, phase, url,
                   data>>

\* asyncio.sleep(delay_between_requests) is over: attempt 1 is sent
DelayDone(w) ==
    /\ At(w, "delay")
    /\ attempt' = [attempt EXCEPT ![w] = 1]
    /\ requests' = [requests EXCEPT ![url[w]] = @ + 1]
    /\ Goto(w, "fetch")
    /\ UNCHANGED <<envV, queueV, robotsV, bufV, visV, countV,
                   wait_time, perm_failed, answer, domain_semaphores, phase,
                   url, data>>

\* fetch_with_retry, one attempt answered.  The answers of the server:
\*   "page"  status 200 and a non-empty body (its hrefs are `page`)
\*   "empty" status 200 and an empty body
\*   "fatal" status 404, 403 or 410
\*   "retry" another status, a timeout, a connection error, an exception
Answers == {"page", "broken_page", "empty", "fatal", "retry"}

\* a retry test that allows one attempt too many
MayRetry_OneMore(a) == a <= max_retries

\* `for attempt in range(1, max_retries + 1)` / `if attempt < max_retries`
MayRetry(a) == a < max_retries

\* `return None` of fetch_with_retry and the `else:` of `if html:`
PermanentFailure(w) ==
    /\ perm_failed' = perm_failed \cup {url[w]}
    /\ Goto(w, "task_done")
    /\ UNCHANGED <<attempt, wait_time, data>>

FetchResponse(w) ==
    /\ At(w, "fetch")
    /\ \E a \in Answers :
        /\ answer' = [answer EXCEPT ![w] = a]
        /\ \/ /\ a = "page"              \* parse succeeds
              /\ \E page \in Pages :
                   data' = [data EXCEPT ![w] = ParseLinks(page, url[w])]
              /\ Goto(w, "append")
              /\ UNCHANGED <<attempt, wait_time, perm_failed>>
           \/ /\ a = "broken_page"       \* parse raises: `except Exception`
              /\ Goto(w, "task_done")
              /\ UNCHANGED <<attempt, wait_time, perm_failed, data>>
           \/ /\ a \in {"empty", "fatal"}
              /\ PermanentFailure(w)
           \/ /\ a = "retry"
              /\ IF MayRetry(attempt[w])
                 THEN /\ wait_time' =
                          [wait_time EXCEPT ![w] = attempt[w] * retry_backoff]
                      /\ Goto(w, "backoff")
                      /\ UNCHANGED <<attempt, perm_failed, data>>
                 ELSE PermanentFailure(w)
    /\ UNCHANGED <<envV, queueV, robotsV, bufV, visV, countV,
                   requests, domain_semaphores, phase, url>>

\* asyncio.sleep(wait_time) is over: the next attempt is sent
BackoffDone(w) ==
    /\ At(w, "backoff")
    /\ attempt' = [attempt EXCEPT ![w] = @ + 1]
    /\ wait_time' = [wait_time EXCEPT ![w] = 0]
    /\ requests' = [requests EXCEPT ![url[w]] = @ + 1]
    /\ Goto(w, "fetch")
    /\ UNCHANGED <<envV, queueV, robotsV, bufV, visV, countV,
                   perm_failed, answer, domain_semaphores, phase, url, data>>

\* async with self.buffer_lock: self.data_buffer.append(data)
BufferAppend(w) ==
    /\ At(w, "append")
    /\ IF buffer_lock = <<>>
       THEN /\ data_buffer' = Append(data_buffer, url[w])
            /\ emitted' = Append(emitted, url[w])
            /\ Goto(w, "save_data")
            /\ UNCHANGED buffer_lock
       ELSE /\ buffer_lock' = Append(buffer_lock, w)
            /\ Goto(w, "append_wait")
            /\ UNCHANGED <<data_buffer, emitted>>
    /\ UNCHANGED <<envV, queueV, robotsV, visV, countV, fetchV, scraped_file,
                   domain_semaphores, phase, url, data>>

\* save_data: `if not self.data_buffer: return` and the size test
MustFlush(force) ==
    /\ data_buffer # <<>>
    /\ Len(data_buffer) >= save_chunk_size \/ force

\* await self.save_data() of the worker, up to the first await
SaveData(w) ==
    /\ At(w, "save_data")
    /\ IF buffer_lock # <<>>
       THEN /\ buffer_lock' = Append(buffer_lock, w)
            /\ Goto(w, "save_wait")
       ELSE IF MustFlush(FALSE)
       THEN /\ buffer_lock' = <<w>>
            /\ Goto(w, "flushing")
       ELSE /\ Goto(w, "enqueue")
            /\ UNCHANGED buffer_lock
    /\ UNCHANGED <<envV, queueV, robotsV, visV, countV, fetchV, data_buffer,
                   scraped_file, emitted, domain_semaphores, phase, url,
                   data>>

\* buffer_lock is handed to its first waiter, which goes on where it waited:
\* with the append of line 284, or with the size test of save_data (a worker
\* waits there only when a third one queued behind its append)
BufferLockGranted(w) ==
    /\ pc[w] \in {"append_wait", "save_wait"}
    /\ At(w, pc[w])
    /\ Head(buffer_lock) = w
    /\ IF pc[w] = "append_wait"
       THEN /\ data_buffer' = Append(data_buffer, url[w])
            /\ emitted' = Append(emitted, url[w])
            /\ buffer_lock' = Tail(buffer_lock)
            /\ Goto(w, "save_data")
       ELSE IF MustFlush(FALSE)
       THEN /\ Goto(w, "flushing")
            /\ UNCHANGED <<buffer_lock, data_buffer, emitted>>
       ELSE /\ buffer_lock' = Tail(buffer_lock)
            /\ Goto(w, "enqueue")
            /\ UNCHANGED <<data_buffer, emitted>>
    /\ UNCHANGED <<envV, queueV, robotsV, visV, countV, fetchV, scraped_file,
                   domain_semaphores, phase, url, data>>

\* the write loop of save_data: every item is written and the buffer is
\* cleared, or an I/O error after k items is logged and the buffer is kept
WriteBuffer(ok) ==
    /\ IOCount(ok)
    /\ IF ok
       THEN /\ scraped_file' = scraped_file \o data_buffer
            /\ data_buffer' = <<>>
       ELSE /\ \E k \in 0..(Len(data_buffer) - 1) :
                 scraped_file' = scraped_file \o SubSeq(data_buffer, 1, k)
            /\ UNCHANGED data_buffer

FlushDone(w) ==
    /\ At(w, "flushing")
    /\ \E ok \in IOOutcomes : WriteBuffer(ok)
    /\ buffer_lock' = Tail(buffer_lock)
    /\ Goto(w, "enqueue")
    /\ UNCHANGED <<cfgV, queueV, robotsV, visV, countV, fetchV, emitted,
                   domain_semaphores, phase, url, data>>

\* an exit from the block that keeps the slot
ReleaseSlot_Never(w) == UNCHANGED domain_semaphores

\* leaving `async with domain_sem:` gives the slot back
ReleaseSlot(w) ==
    domain_semaphores' = [domain_semaphores EXCEPT ![Host(url[w])] = @ + 1]

\* lines 287-312 and 320: enqueue the links not yet visited, then under
\* count_lock (never contended: nothing awaits while it is held) test and
\* increment the emission counter
EnqueueAndCount(w) ==
    /\ At(w, "enqueue")
    /\ LET new == SelectSeq(data[w], LAMBDA l : l \notin visited_urls)
           q == queue \o new
       IN IF urls_crawled_count >= max_total_urls
          THEN \* "Limit reached, discarding result": drain and `break`
               /\ should_stop' = TRUE
               /\ queue' = <<>>
               /\ unfinished' = unfinished + Len(new) - Len(q)
               /\ UNCHANGED urls_crawled_count
               /\ Goto(w, "done")
          ELSE /\ urls_crawled_count' = urls_crawled_count + 1
               /\ should_stop' =
                      (should_stop \/ urls_crawled_count + 1 >= max_total_urls)
               /\ queue' = q
               /\ unfinished' = unfinished + Len(new) - 1
               /\ Goto(w, LoopTest(should_stop'))
    /\ ReleaseSlot(w)
    /\ url' = [url EXCEPT ![w] = 0]
    /\ attempt' = [attempt EXCEPT ![w] = 0]
    /\ data' = [data EXCEPT ![w] = <<>>]
    /\ answer' = [answer EXCEPT ![w] = "none"]
    /\ UNCHANGED <<envV, robotsV, bufV, visV, wait_time, requests,
                   perm_failed, phase>>

\* self.queue.task_done() at the end of the `async with domain_sem:` block
\* on the paths without a document, the release of the semaphore and the
\* loop test
TaskDone(w) ==
    /\ At(w, "task_done")
    /\ unfinished' = unfinished - 1
    /\ ReleaseSlot(w)
    /\ url' = [url EXCEPT ![w] = 0]
    /\ attempt' = [attempt EXCEPT ![w] = 0]
    /\ answer' = [answer EXCEPT ![w] = "none"]
    /\ Goto(w, LoopTest(should_stop))
    /\ UNCHANGED <<envV, queue, robotsV, bufV, visV, countV,
                   wait_time, requests, perm_failed, phase, data>>

\* --------------------------------------------------------- run(): the end
\* gather() has returned: await self.save_data(force=True).  The run ends
\* in phase "finished", or "flush_failed" when that last write raised (the
\* error is logged and the buffer keeps its documents).
FinalFlush ==
    /\ phase = "workers"
    /\ running = 0
    /\ \A w \in Workers : pc[w] = "done"
    /\ IF MustFlush(TRUE)
       THEN \E ok \in IOOutcomes :
               /\ WriteBuffer(ok)
               /\ phase' = IF ok THEN "finished" ELSE "flush_failed"
       ELSE /\ phase' = "finished"
            /\ UNCHANGED <<data_buffer, scraped_file, io_errors>>
    /\ UNCHANGED <<cfgV, queueV, robotsV, visV, countV, fetchV, buffer_lock,
                   emitted, domain_semaphores, running, pc, url, data>>

WorkerStep(w) ==
    \/ Dequeue(w) \/ GetTimeout(w) \/ AfterGet(w) \/ WriteVisited(w)
    \/ RobotsCheck(w) \/ RobotsLockGranted(w) \/ RobotsLookup(w)
    \/ RobotsFetched(w) \/ RobotsEval(w)
    \/ SemAcquire(w) \/ SemGranted(w) \/ DelayDone(w)
    \/ FetchResponse(w) \/ BackoffDone(w)
    \/ BufferAppend(w) \/ SaveData(w) \/ BufferLockGranted(w)
    \/ FlushDone(w)
    \/ EnqueueAndCount(w) \/ TaskDone(w)

Next ==
    \/ InitState
    \/ \E w \in Workers : WorkerStep(w)
    \/ FinalFlush

Spec == Init /\ [][Next]_vars

\* The event loop runs every ready task, and every sleep, request, file
\* operation and dequeue timeout ends.
Fairness ==
    /\ WF_vars(InitState)
    /\ \A w \in Workers : WF_vars(WorkerStep(w))
    /\ WF_vars(FinalFlush)

SpecFair == Spec /\ Fairness

\* ================================================================ indexer
\* A line of the scraped log is the url of its record, or 0 for a line that
\* load_scraped skips (blank, not JSON, or without a "url").
Lines == URLS \cup {0}

\* the crawler is not running while the indexer works on its output
CrawlerIdle ==
    /\ start_urls = <<>>
    /\ respect_robots = FALSE
    /\ visited_file = <<>>
    /\ prior_visited = 0
    /\ prior_scraped = 0
    /\ queue = <<>>
    /\ unfinished = 0
    /\ visited_urls = {}
    /\ data_buffer = <<>>
    /\ urls_crawled_count = 0
    /\ should_stop = FALSE
    /\ file_lock = <<>>
    /\ buffer_lock = <<>>
    /\ domain_semaphores = [h \in HOSTS |-> max_concurrent_per_host]
    /\ robots_cache = [h \in {} |-> {}]
    /\ robots_lock = <<>>
    /\ phase = "finished"
    /\ running = 0
    /\ pc = [w \in Workers |-> "done"]
    /\ url = [w \in Workers |-> 0]
    /\ attempt = [w \in Workers |-> 0]
    /\ wait_time = [w \in Workers |-> 0]
    /\ data = [w \in Workers |-> <<>>]
    /\ answer = [w \in Workers |-> "none"]
    /\ loaded = {}
    /\ dispatched = <<>>
    /\ emitted = <<>>
    /\ requests = [u \in URLS |-> 0]
    /\ append_failed = {}
    /\ robots_requests = [o \in ORIGINS |-> 0]
    /\ perm_failed = {}
    /\ io_errors = 0

\* a run of the indexer before load_scraped: nothing computed yet
RunStart ==
    /\ idx_pc = "start"
    /\ docs = <<>>
    /\ url_to_idx = [u \in {} |-> 0]
    /\ indexed_buffer = <<>>
    /\ indexed_count = 0
    /\ idx_i = 0
    /\ graph_out = <<>>
    /\ pr = <<>>
    /\ pr_rounds = 0
    /\ pagerank = <<>>
    /\ factors_scores = <<>>

\* The indexer is run, and run again, on scraped logs that may hold lines
\* to skip and repeated urls; the documents have no links and equal factors.
InitIndexer ==
    /\ CrawlerIdle
    /\ SearchIdle
    /\ TokIdle
    /\ RunStart
    /\ scraped_file \in SeqsUpTo(Lines, MaxLines)
    /\ limit \in 0..MaxLimit
    /\ idx_runs = 1
    /\ index_file = <<>>
    /\ links_found = [u \in URLS |-> {}]
    /\ factors_total = [u \in URLS |-> 0]
    /\ language = [u \in URLS |-> "unknown"]
    /\ bm25_enabled \in BOOLEAN
    /\ weight_pagerank = DefaultWeights[1]
    /\ weight_factors = DefaultWeights[2]
    /\ clamp_final_score_0_100 = TRUE

\* Indexer.load_scraped: every line with a url becomes one document;
\* url_to_idx keeps the last position of each url
LoadScraped ==
    /\ idx_pc = "start"
    /\ LET ds == SelectSeq(scraped_file, LAMBDA l : l # 0)
       IN /\ docs' = ds
          /\ url_to_idx' =
                [u \in Range(ds) |->
                    CHOOSE i \in DOMAIN ds :
                        /\ ds[i] = u
                        /\ \A j \in DOMAIN ds : ds[j] = u => j <= i]
    /\ indexed_buffer' = <<>>
    /\ indexed_count' = 0
    /\ idx_i' = 1
    /\ idx_pc' = "graph"
    /\ UNCHANGED <<restV, idx_runs, limit, index_file, corpusV, rankV>>

\* Indexer.build_graph: graph_out[i] holds one edge for every link of
\* docs[i] that is the url of a loaded document (links_found is kept as the
\* set of its targets: list(dict.fromkeys(targets)) keeps one of each)
BuildGraph ==
    /\ idx_pc = "graph"
    /\ graph_out' =
          [i \in DOMAIN docs |->
              {url_to_idx[l] : l \in links_found[docs[i]] \cap DOMAIN url_to_idx}]
    /\ pr' = [i \in DOMAIN docs |-> 1]
    /\ pr_rounds' = 0
    /\ idx_pc' = "pagerank"
    /\ UNCHANGED <<restV, idx_runs, limit, docs, url_to_idx, index_file,
                   indexed_buffer, indexed_count, idx_i, corpusV, pagerank,
                   factors_scores>>

RECURSIVE Fact(_)
Fact(n) == IF n <= 1 THEN 1 ELSE n * Fact(n - 1)

RECURSIVE Pow(_, _)
Pow(x, k) == IF k = 0 THEN 1 ELSE x * Pow(x, k - 1)

RECURSIVE SumSeq(_)
SumSeq(s) == IF s = <<>> THEN 0 ELSE s[1] + SumSeq(Tail(s))

\* The vector pr after k iterations over n documents is kept as the
\* numerators of its entries over the common denominator PrDen(n, k): every
\* iteration divides by n, by the damping's denominator and by an outdegree.
PrDen(n, k) == n * Pow(DampDen * Fact(n), k)

\* an outdegree that counts every source as having one link
outdegree_One(i) == IF graph_out[i] = {} THEN 0 ELSE 1

\* outdegree = [len(self.graph_out[i]) for i in range(n)]
outdegree(i) == Cardinality(graph_out[i])

\* one turn of `for _ in range(self.cfg.pagerank_iterations):`
\*   new_pr[node] = (1 - d) / n + d * sum(pr[src] / outdegree[src])
\* over the inbound sources with outdegree > 0
NewPr(n, k) ==
    [node \in 1..n |->
        (DampDen - DampNum) * Fact(n) * Pow(DampDen * Fact(n), k)
        + DampNum * SumSeq([src \in 1..n |->
              IF node \in graph_out[src] /\ outdegree(src) > 0
              THEN pr[src] * (Fact(n) \div outdegree(src))
              ELSE 0])]

PagerankIteration ==
    /\ idx_pc = "pagerank"
    /\ docs # <<>>
    /\ pr_rounds < pagerank_iterations
    /\ pr' = NewPr(Len(docs), pr_rounds)
    /\ pr_rounds' = pr_rounds + 1
    /\ UNCHANGED <<restV, idx_pc, idx_runs, limit, docs, url_to_idx,
                   index_file, indexed_buffer, indexed_count, idx_i, corpusV,
                   graph_out, pagerank, factors_scores>>

MinOf(s) == CHOOSE x \in Range(s) : \A y \in Range(s) : x <= y
MaxOf(s) == CHOOSE x \in Range(s) : \A y \in Range(s) : x >= y

\* a normalisation that divides by the maximum alone
MinMax_ByMax(s) ==
    IF MaxOf(s) > MinOf(s)
    THEN [i \in DOMAIN s |-> Frac(s[i], MaxOf(s))]
    ELSE [i \in DOMAIN s |-> Zero]

\* lines 264-269: min-max normalisation, all zeros when max = min
MinMax(s) ==
    IF MaxOf(s) > MinOf(s)
    THEN [i \in DOMAIN s |-> Frac(s[i] - MinOf(s), MaxOf(s) - MinOf(s))]
    ELSE [i \in DOMAIN s |-> Zero]

\* the end of compute_pagerank: `return []` for no document, and the
\* normalised vector after the last iteration
PagerankNormalize ==
    /\ idx_pc = "pagerank"
    /\ docs = <<>> \/ pr_rounds = pagerank_iterations
    /\ pagerank' = IF docs = <<>> THEN <<>> ELSE MinMax(pr)
    /\ idx_pc' = "bm25"
    /\ UNCHANGED <<restV, idx_runs, limit, docs, url_to_idx, index_file,
                   indexed_buffer, indexed_count, idx_i, corpusV, graph_out,
                   pr, pr_rounds, factors_scores>>

\* rank_bm25.BM25Okapi(corpus): the constructor ends with
\* avgdl = num_doc / corpus_size, a ZeroDivisionError for an empty corpus
BM25Okapi_Raises(corpus) == corpus = <<>>

\* Indexer.build_bm25: one token list per document goes to BM25Okapi; the
\* exception of an empty corpus is caught nowhere and ends run()
BuildBM25 ==
    /\ idx_pc = "bm25"
    /\ idx_pc' = IF bm25_enabled /\ BM25Okapi_Raises(docs)
                 THEN "crashed" ELSE "factors"
    /\ UNCHANGED <<restV, idx_runs, limit, docs, url_to_idx, index_file,
                   indexed_buffer, indexed_count, idx_i, corpusV, rankV>>

\* lines 473-479: factors_scores[i] is compute_factors_score(doc)[0], the
\* sum of the factor scores of the document
ComputeFactors ==
    /\ idx_pc = "factors"
    /\ factors_scores' = [i \in DOMAIN docs |-> factors_total[docs[i]]]
    /\ idx_pc' = "loop"
    /\ UNCHANGED <<restV, idx_runs, limit, docs, url_to_idx, index_file,
                   indexed_buffer, indexed_count, idx_i, corpusV, graph_out,
                   pr, pr_rounds, pagerank>>

\* lines 481-487: min_f, max_f and norm_f
min_f == IF factors_scores # <<>> THEN MinOf(factors_scores) ELSE 0
max_f == IF factors_scores # <<>> THEN MaxOf(factors_scores) ELSE 1
norm_f(x) == IF max_f > min_f THEN Frac(x - min_f, max_f - min_f) ELSE Zero

\* a clamp without its upper end
ClampScore_NoUpper(x) == RMax(Zero, x)

\* max(0.0, min(100.0, final_0_100))
ClampScore(x) == RMax(Zero, RMin(Hundred, x))

\* lines 498-509 and 519-533: the record of docs[i]
IndexedRecord(i) ==
    LET p == IF pagerank # <<>> THEN pagerank[i] ELSE Zero
        f_norm == norm_f(factors_scores[i])
        final_0_1 == RAdd(RMul(p, weight_pagerank),
                          RMul(f_norm, weight_factors))
        final_0_100 == RMul(final_0_1, Hundred)
    IN [url |-> docs[i],
        language |-> language[docs[i]],
        pagerank |-> p,
        factors_norm |-> f_norm,
        final_score |-> IF clamp_final_score_0_100
                        THEN ClampScore(final_0_100) ELSE final_0_100]

\* `if limit > 0 and indexed_count >= limit: break`
LimitReached == limit > 0 /\ indexed_count >= limit

\* one turn of `for i, doc in enumerate(self.docs):` in Indexer.run: the
\* record of docs[i] goes to the buffer, and save_chunk appends the buffer
\* to the index file once it holds save_chunk_size records
IndexDoc ==
    /\ idx_pc = "loop"
    /\ idx_i <= Len(docs)
    /\ ~LimitReached
    /\ LET buf == Append(indexed_buffer, IndexedRecord(idx_i))
       IN IF Len(buf) >= index_chunk_size
          THEN /\ index_file' = index_file \o buf
               /\ indexed_buffer' = <<>>
          ELSE /\ indexed_buffer' = buf
               /\ UNCHANGED index_file
    /\ indexed_count' = indexed_count + 1
    /\ idx_i' = idx_i + 1
    /\ UNCHANGED <<restV, idx_pc, idx_runs, limit, docs, url_to_idx,
                   corpusV, rankV>>

\* the loop is over: the last self.save_chunk(indexed_buffer)
FinishIndex ==
    /\ idx_pc = "loop"
    /\ idx_i > Len(docs) \/ LimitReached
    /\ index_file' = index_file \o indexed_buffer
    /\ indexed_buffer' = <<>>
    /\ idx_pc' = "done"
    /\ UNCHANGED <<restV, idx_runs, limit, docs, url_to_idx,
                   indexed_count, idx_i, corpusV, rankV>>

\* the indexer is started again, on the same scraped log or after the
\* crawler appended one more line to it; the index file stays on disk
RunAgain ==
    /\ idx_pc = "done"
    /\ idx_runs < MaxIndexerRuns
    /\ \/ UNCHANGED scraped_file
       \/ /\ Len(scraped_file) < MaxLines
          /\ \E l \in Lines : scraped_file' = Append(scraped_file, l)
    /\ idx_runs' = idx_runs + 1
    /\ idx_pc' = "start"
    /\ docs' = <<>>
    /\ url_to_idx' = [u \in {} |-> 0]
    /\ indexed_buffer' = <<>>
    /\ indexed_count' = 0
    /\ idx_i' = 0
    /\ graph_out' = <<>>
    /\ pr' = <<>>
    /\ pr_rounds' = 0
    /\ pagerank' = <<>>
    /\ factors_scores' = <<>>
    /\ UNCHANGED <<start_urls, respect_robots, queue, unfinished,
                   visited_urls, data_buffer, urls_crawled_count,
                   should_stop, file_lock, buffer_lock, domain_semaphores,
                   robots_cache, robots_lock, visited_file, phase, running,
                   pc, url, attempt, wait_time, data, answer, prior_visited,
                   prior_scraped, loaded, dispatched, emitted, requests,
                   append_failed, robots_requests, perm_failed, io_errors,
                   limit, index_file, corpusV, searchV, tokV>>

\* Indexer.run
NextRun ==
    \/ LoadScraped \/ BuildGraph \/ PagerankIteration \/ PagerankNormalize
    \/ BuildBM25 \/ ComputeFactors \/ IndexDoc \/ FinishIndex

NextIndexer == NextRun \/ RunAgain

SpecIndexer == InitIndexer /\ [][NextIndexer]_vars

\* Weights of the final score that sum to 1, exceed 1, or are negative
Weights == {(<<-1, 2>>), (<<1, 2>>), (<<3, 2>>)}

\* sorted lists of distinct urls: the scraped log of a crawl without a
\* repeated document
DistinctLogs ==
    {s \in SeqsUpTo(URLS, MaxLines) :
        \A i, j \in DOMAIN s : i < j => s[i] < s[j]}

\* One run of the indexer over a scraped log of distinct documents with
\* any links among them, any factor totals and any weights.
InitRank ==
    /\ CrawlerIdle
    /\ SearchIdle
    /\ TokIdle
    /\ RunStart
    /\ scraped_file \in DistinctLogs
    /\ limit = 0
    /\ idx_runs = 1
    /\ index_file = <<>>
    /\ links_found \in [URLS -> SUBSET URLS]
    /\ \A u \in URLS \ Range(scraped_file) : links_found[u] = {}
    /\ factors_total \in [URLS -> 0..MaxFactor]
    /\ \A u \in URLS \ Range(scraped_file) : factors_total[u] = 0
    /\ language = [u \in URLS |-> "unknown"]
    /\ bm25_enabled = TRUE
    /\ weight_pagerank \in Weights
    /\ weight_factors \in Weights
    /\ clamp_final_score_0_100 \in BOOLEAN

SpecRank == InitRank /\ [][NextRun]_vars

\* =============================================================== searcher
\* SearchController defaults
weight_bm25 == <<3, 5>>
weight_index_score == <<7, 20>>
search_weight_pagerank == <<1, 20>>
lang_penalty_multiplier == <<17, 20>>

\* lang_rank over lang_priority = ["pt", "pt-br", "en"]: the position of
\* the first entry that the language equals or starts with, -1 for None
lang_rank(lang) ==
    IF lang \in {"pt", "pt-br"} THEN 0 ELSE IF lang = "en" THEN 2 ELSE -1

\* Searcher.score_language: 1.0 + 0.08 * (1.0 / (1 + r))
score_language(doc) ==
    LET r == lang_rank(doc.language)
    IN IF r < 0 THEN lang_penalty_multiplier
       ELSE Frac(100 * (1 + r) + 8, 100 * (1 + r))

\* clamp(x, 0.0, 1.0)
clamp(x) == RMax(Zero, RMin(One, x))

\* normalize_0_1: all zeros when mx <= mn
normalize_0_1(values) ==
    IF values = <<>> THEN <<>>
    ELSE IF MaxOf(values) <= MinOf(values)
    THEN [i \in DOMAIN values |-> Zero]
    ELSE [i \in DOMAIN values |->
             Frac(values[i] - MinOf(values), MaxOf(values) - MinOf(values))]

\* lines 233-250: the combined score of s_docs[i] for the raw BM25 scores
Combined(i, scores) ==
    LET doc == s_docs[i]
        index_norm == clamp(RMul(doc.final_score, <<1, 100>>))
        pr_norm == clamp(doc.pagerank)
        bm == normalize_0_1(scores)[i]
    IN RMul(RAdd(RAdd(RMul(bm, weight_bm25),
                      RMul(index_norm, weight_index_score)),
                 RMul(pr_norm, search_weight_pagerank)),
            score_language(doc))

\* a sort direction that ignores the configured order
Reverse_Always(o) == TRUE

\* reverse = (self.cfg.order.lower() == "desc")
Reverse(o) == o = "desc"

\* list.sort(key=..., reverse=...): the stable order of the positions 1..n
\* by key; equal keys keep their order, also when reversed
SortedPositions(key, reverse) ==
    LET n == Len(key)
    IN CHOOSE p \in [1..n -> 1..n] :
          /\ \A a, b \in 1..n : a # b => p[a] # p[b]
          /\ \A a, b \in 1..n : a < b =>
                \/ IF reverse THEN RLess(key[p[b]], key[p[a]])
                              ELSE RLess(key[p[a]], key[p[b]])
                \/ key[p[a]] = key[p[b]] /\ p[a] < p[b]

\* Searcher.search for a query that keeps a token: score, sort, slice
Ranked(scores) ==
    LET key == [i \in DOMAIN s_docs |-> Combined(i, scores)]
        p == SortedPositions(key, Reverse(order))
        k == IF results_limit < Len(s_docs) THEN results_limit
             ELSE Len(s_docs)
    IN [j \in 1..k |-> [doc |-> p[j], combined |-> key[p[j]]]]

\* the queries tried: empty, blank, a stopword, a token
Queries == {<<>>, <<" ">>, <<"d", "i", "d">>, <<"d", "d", "d">>}

\* `if not query.strip():`
Blank(q) == \A k \in DOMAIN q : q[k] = " "

\* the query keeps a token
KeepsToken(q) == ~Blank(q) /\ search_tokenize(q) # <<>>

\* The searcher is started on the index file once no indexer is running.
LoadIndex ==
    /\ search_pc = "start"
    /\ idx_pc \in {"idle", "done", "crashed"}
    /\ s_docs' = index_file
    /\ search_pc' = "loaded"
    /\ UNCHANGED <<crawlerVars, indexerVars, tokV, searchCfgV, query,
                   bm25_scores, results>>

\* Searcher.build_bm25: BM25Okapi raises for an empty corpus; run_cli calls
\* it outside its try block
SearcherBuildBM25 ==
    /\ search_pc = "loaded"
    /\ search_pc' = IF BM25Okapi_Raises(s_docs) THEN "crashed" ELSE "ready"
    /\ UNCHANGED <<crawlerVars, indexerVars, tokV, searchCfgV, s_docs, query,
                   bm25_scores, results>>

\* one query of run_cli: Searcher.search(q); bm25.get_scores(q_tokens)
\* answers any raw score per document
Search ==
    /\ search_pc \in {"ready", "answered"}
    /\ \E q \in Queries :
         /\ query' = q
         /\ IF KeepsToken(q)
            THEN \E scores \in [DOMAIN s_docs -> 0..MaxScore] :
                    /\ bm25_scores' = scores
                    /\ results' = Ranked(scores)
            ELSE /\ bm25_scores' = <<>>
                 /\ results' = <<>>
    /\ search_pc' = "answered"
    /\ UNCHANGED <<crawlerVars, indexerVars, tokV, searchCfgV, s_docs>>

NextSearch == LoadIndex \/ SearcherBuildBM25 \/ Search

\* the records tried in an index file: the url is the position of the line
IndexRecords(u) ==
    [url : {u}, language : {"pt", "unknown"}, pagerank : {Zero, One},
     factors_norm : {Zero},
     final_score : {Zero, (<<150, 1>>)}]

IndexFiles ==
    UNION {{f \in [1..n -> UNION {IndexRecords(u) : u \in 1..n}] :
               \A i \in 1..n : f[i].url = i} : n \in 0..MaxRecords}

\* The searcher is started on any index file of up to MaxRecords records.
InitSearch ==
    /\ CrawlerIdle
    /\ IndexerStopped
    /\ index_file \in IndexFiles
    /\ TokIdle
    /\ scraped_file = <<>>
    /\ search_pc = "start"
    /\ s_docs = <<>>
    /\ order \in {"desc", "asc"}
    /\ results_limit \in 0..MaxRecords
    /\ query = <<>>
    /\ bm25_scores = <<>>
    /\ results = <<>>

SpecSearch == InitSearch /\ [][NextSearch]_vars

\* The indexer is run once on a scraped log, and the searcher is started on
\* the index file that the run left.
InitRoundTrip ==
    /\ CrawlerIdle
    /\ TokIdle
    /\ RunStart
    /\ scraped_file \in SeqsUpTo(Lines, MaxLines)
    /\ limit = 0
    /\ idx_runs = 1
    /\ index_file = <<>>
    /\ links_found = [u \in URLS |-> {}]
    /\ factors_total = [u \in URLS |-> 0]
    /\ language = [u \in URLS |-> "unknown"]
    /\ bm25_enabled \in BOOLEAN
    /\ weight_pagerank = DefaultWeights[1]
    /\ weight_factors = DefaultWeights[2]
    /\ clamp_final_score_0_100 = TRUE
    /\ search_pc = "start"
    /\ s_docs = <<>>
    /\ order = "desc"
    /\ results_limit = MaxRecords
    /\ query = <<>>
    /\ bm25_scores = <<>>
    /\ results = <<>>

NextRoundTrip == NextRun \/ NextSearch

SpecRoundTrip == InitRoundTrip /\ [][NextRoundTrip]_vars

\* ------------------------------------------------- tokenize, applied twice
InitTokenize ==
    /\ CrawlerIdle
    /\ IndexerIdle
    /\ SearchIdle
    /\ scraped_file = <<>>
    /\ tok_pc = "start"
    /\ text \in Texts
    /\ tokens = <<>>
    /\ s_tokens = <<>>
    /\ retokens = <<>>
    /\ s_retokens = <<>>

\* tokenize(text) in the indexer (build_bm25) and in the searcher
Tokenize ==
    /\ tok_pc = "start"
    /\ tokens' = tokenize(text)
    /\ s_tokens' = search_tokenize(text)
    /\ tok_pc' = "tokenized"
    /\ UNCHANGED <<crawlerVars, indexerVars, searchV, text, retokens,
                   s_retokens>>

\* the token lists joined with spaces and tokenized again
Retokenize ==
    /\ tok_pc = "tokenized"
    /\ retokens' = tokenize(Join(tokens))
    /\ s_retokens' = search_tokenize(Join(s_tokens))
    /\ tok_pc' = "retokenized"
    /\ UNCHANGED <<crawlerVars, indexerVars, searchV, text, tokens, s_tokens>>

NextTokenize == Tokenize \/ Retokenize

SpecTokenize == InitTokenize /\ [][NextTokenize]_vars

\* ================================================================ claims
CountIn(s, x) == Cardinality({i \in DOMAIN s : s[i] = x})
NoRepeat(s) == \A i, j \in DOMAIN s : i # j => s[i] # s[j]

\* the lines this run appended to the two logs
AppendedVisited == SubSeq(visited_file, prior_visited + 1, Len(visited_file))
WrittenScraped == SubSeq(scraped_file, prior_scraped + 1, Len(scraped_file))

\* a worker is between visited_urls.add(u) and the end of save_visited(u)
SavingVisited(u) == \E w \in Workers : pc[w] = "save_visited" /\ url[w] = u

\* C1: the number of documents appended to the write buffer (and so written
\* to the scraped log) never exceeds max_total_urls.
C1_EmissionsWithinQuota == Len(emitted) <= max_total_urls

\* C2 (as claimed): every URL is dispatched at most once in a run, a URL
\* loaded from the visited log is never dispatched, and every dispatched
\* URL has exactly one line appended to the visited log.
C2_DispatchOnceLoggedOnce ==
    /\ NoRepeat(dispatched)
    /\ Range(dispatched) \cap loaded = {}
    /\ \A u \in Range(dispatched) :
         ~SavingVisited(u) => CountIn(AppendedVisited, u) = 1

\* C2 (amended): every URL is dispatched at most once in a run, a URL loaded
\* from the visited log is never dispatched, and every dispatched URL has
\* exactly one line appended to the visited log unless its append failed
\* with an I/O error, in which case it has none.
C2_DispatchOnceLoggedUnlessError ==
    /\ NoRepeat(dispatched)
    /\ Range(dispatched) \cap loaded = {}
    /\ \A u \in Range(dispatched) :
         CountIn(AppendedVisited, u) =
             IF SavingVisited(u) \/ u \in append_failed THEN 0 ELSE 1

\* a second copy of an already dispatched and logged URL has been dequeued
\* in a run that resumed from a visited log
C2_Witness ==
    /\ loaded # {}
    /\ Len(dispatched) >= 2
    /\ \E w \in Workers :
         /\ pc[w] = "got"
         /\ url[w] \in Range(dispatched)
         /\ CountIn(AppendedVisited, url[w]) = 1

\* pcs inside `async with domain_sem:`
SlotPcs == {"delay", "fetch", "backoff", "append", "append_wait",
            "save_data", "save_wait", "flushing", "enqueue", "task_done"}
Holders(h) == {w \in Workers : pc[w] \in SlotPcs /\ Host(url[w]) = h}

\* C3: for every host at most max_concurrent_per_host workers are sleeping
\* the delay, fetching or between retries, and each of them has taken one
\* slot of the host's semaphore (no request is sent without a slot).
C3_HostAdmission ==
    \A h \in HOSTS :
        /\ Cardinality(Holders(h)) <= max_concurrent_per_host
        /\ domain_semaphores[h] + Cardinality(Holders(h))
               = max_concurrent_per_host

\* one worker keeps the slot between two attempts while another waits for it
C3_Witness ==
    \E w, v \in Workers :
        /\ pc[w] = "backoff"
        /\ pc[v] = "sem_wait"
        /\ Host(url[w]) = Host(url[v])

\* the visited log of the earlier runs was read at startup
Resumed ==
    /\ phase # "init"
    /\ loaded = Range(SubSeq(visited_file, 1, prior_visited))

\* C4: at most one document per URL is appended to the buffer, no URL
\* appears twice among the lines a run writes to the scraped log, and no URL
\* appears twice in the scraped log of a run resumed from the visited log.
C4_NoDuplicateScraped ==
    /\ NoRepeat(emitted)
    /\ NoRepeat(WrittenScraped)
    /\ Resumed => NoRepeat(scraped_file)

Disallowed(u) ==
    Host(u) \in DOMAIN robots_cache /\ u \in robots_cache[Host(u)]

\* C6: with respect_robots a URL that the cached policy of its host
\* disallows is never requested and never emitted; without respect_robots
\* the robots cache is never consulted.
C6_Robots ==
    /\ respect_robots =>
         \A u \in URLS :
             Disallowed(u) => requests[u] = 0 /\ u \notin Range(emitted)
    /\ ~respect_robots =>
         /\ DOMAIN robots_cache = {}
         /\ robots_lock = <<>>
         /\ \A o \in ORIGINS : robots_requests[o] = 0

\* a host that disallows everything: its URLs were dispatched and skipped,
\* and the run ended without an emission for it
C6_Witness ==
    /\ phase = "finished"
    /\ respect_robots
    /\ \E u \in Range(dispatched) :
         /\ Cardinality(SameHost(u)) > 1
         /\ SameHost(u) \subseteq Range(dispatched)
         /\ \A v \in SameHost(u) : Disallowed(v)

\* C7: attempts are numbered 1..max_retries and a URL gets at most
\* max_retries requests; a 404/403/410 ends the fetch at once; any other
\* failure is followed by a sleep of attempt*retry_backoff and one more
\* attempt while attempt < max_retries, and by a permanent failure at
\* attempt max_retries; a permanently failed URL stays visited, is never
\* emitted, never requested again and never enqueued again.
C7_State ==
    /\ \A w \in Workers :
         /\ attempt[w] <= max_retries
         /\ pc[w] \in {"fetch", "backoff"} => attempt[w] >= 1
    /\ \A u \in URLS : requests[u] <= max_retries
    /\ \A u \in perm_failed : u \in visited_urls /\ u \notin Range(emitted)

C7_Step ==
    /\ \A w \in Workers :
         /\ (pc[w] = "fetch" /\ pc'[w] # "fetch" /\ answer'[w] = "fatal") =>
                /\ pc'[w] = "task_done"
                /\ url[w] \in perm_failed'
         /\ (pc[w] = "fetch" /\ pc'[w] # "fetch" /\ answer'[w] = "retry") =>
                IF attempt[w] < max_retries
                THEN /\ pc'[w] = "backoff"
                     /\ wait_time'[w] = attempt[w] * retry_backoff
                ELSE /\ pc'[w] = "task_done"
                     /\ url[w] \in perm_failed'
         /\ (pc[w] = "backoff" /\ pc'[w] # "backoff") =>
                /\ pc'[w] = "fetch"
                /\ attempt'[w] = attempt[w] + 1
                /\ requests'[url[w]] = requests[url[w]] + 1
    /\ \A u \in perm_failed :
         /\ requests'[u] = requests[u]
         /\ CountIn(queue', u) <= CountIn(queue, u)

C7_Retries == []C7_State /\ [][C7_Step]_vars

\* a URL failed for good after max_retries requests, and a link to it was
\* found later without being enqueued
C7_Witness ==
    \E u \in perm_failed :
        /\ requests[u] = max_retries
        /\ \E w \in Workers : pc[w] = "enqueue" /\ u \in Range(data[w])

RunEnded == phase \in {"finished", "flush_failed"}

\* no worker is left inside the loop, holding or awaiting a lock or a slot
AllWorkersOut ==
    /\ \A w \in Workers : pc[w] = "done"
    /\ file_lock = <<>> /\ buffer_lock = <<>> /\ robots_lock = <<>>
    /\ \A h \in HOSTS : domain_semaphores[h] = max_concurrent_per_host

\* C8 (as claimed, its final state): when run() has ended the write buffer
\* is empty and every document ever appended to it is in the scraped log.
C8_FinalFlushComplete ==
    RunEnded =>
        /\ data_buffer = <<>>
        /\ Range(emitted) \subseteq Range(WrittenScraped)

\* C8 (amended): under fair scheduling run() ends; by then every worker has
\* terminated and none holds or awaits a lock or a host semaphore; and
\* unless the final flush itself failed with an I/O error, the write buffer
\* is empty and every document ever appended to it is in the scraped log.
C8_Termination ==
    /\ <>RunEnded
    /\ [](RunEnded => AllWorkersOut)
    /\ [](phase = "finished" =>
             /\ data_buffer = <<>>
             /\ Range(emitted) \subseteq Range(WrittenScraped))

\* the run ended by the final flush of a residual document after the quota
\* stopped the workers
C8_Witness ==
    /\ phase = "finished"
    /\ should_stop
    /\ emitted # <<>>
    /\ scraped_file[Len(scraped_file)] = emitted[Len(emitted)]
    /\ Len(WrittenScraped) % save_chunk_size # 0

\* C9: the step that brings the emission counter to max_total_urls leaves
\* the stop flag set and the work queue empty.
C9_QuotaDrains ==
    [][(urls_crawled_count < max_total_urls
          /\ urls_crawled_count' = max_total_urls)
        => (should_stop' /\ queue' = <<>>)]_vars

\* C10: after the indexer has run, no two records of the index file share
\* a url.
C10_UniqueIndexUrls ==
    idx_pc = "done" =>
        NoRepeat([i \in DOMAIN index_file |-> index_file[i].url])

\* the records the indexer has made for the index file
scored == index_file \o indexed_buffer

\* 100 * (weight_pagerank * pagerank + weight_factors * factors_norm)
Unclamped(r) ==
    RMul(Hundred, RAdd(RMul(weight_pagerank, r.pagerank),
                       RMul(weight_factors, r.factors_norm)))
Clamped(x) ==
    IF RLess(x, Zero) THEN Zero ELSE IF RLess(Hundred, x) THEN Hundred ELSE x
InUnit(x) == RLeq(Zero, x) /\ RLeq(x, One)

\* C11 (as claimed): every record has pagerank and factors_norm in [0,1]
\* and final_score = 100*(weight_pagerank*pagerank +
\* weight_factors*factors_norm) clamped to [0,100], so final_score is in
\* [0,100] for every configuration.
C11_FinalScoreClamped ==
    \A k \in DOMAIN scored :
        /\ InUnit(scored[k].pagerank)
        /\ InUnit(scored[k].factors_norm)
        /\ scored[k].final_score = Clamped(Unclamped(scored[k]))
        /\ RLeq(Zero, scored[k].final_score)
        /\ RLeq(scored[k].final_score, Hundred)

\* C11 (amended): every record has pagerank and factors_norm in [0,1]; with
\* clamp_final_score_0_100 set (the default) final_score is the weighted sum
\* times 100 clamped to [0,100], so it is in [0,100] for every weights;
\* with the option cleared final_score is the weighted sum times 100 as it
\* is.
C11_FinalScoreClampedIfEnabled ==
    \A k \in DOMAIN scored :
        /\ InUnit(scored[k].pagerank)
        /\ InUnit(scored[k].factors_norm)
        /\ scored[k].final_score =
              IF clamp_final_score_0_100
              THEN Clamped(Unclamped(scored[k]))
              ELSE Unclamped(scored[k])
        /\ clamp_final_score_0_100 =>
              /\ RLeq(Zero, scored[k].final_score)
              /\ RLeq(scored[k].final_score, Hundred)

\* with clamping on, one record was cut down to 100 and another kept a
\* score strictly inside the range
C11_Witness ==
    /\ clamp_final_score_0_100
    /\ \E k \in DOMAIN scored :
         /\ RLess(Hundred, Unclamped(scored[k]))
         /\ scored[k].final_score = Hundred
    /\ \E k \in DOMAIN scored :
         /\ RLess(Zero, scored[k].final_score)
         /\ RLess(scored[k].final_score, Hundred)
         /\ RLess(Zero, scored[k].pagerank)
         /\ RLess(scored[k].pagerank, One)

\* compute_pagerank has returned a vector for a non-empty corpus
Normalised == pagerank # <<>>
AllEqual(s) == \A i, j \in DOMAIN s : s[i] = s[j]

\* C12: for a non-empty corpus the returned pagerank vector has minimum 0
\* and maximum 1, unless all values before the normalisation are equal, and
\* then every entry is 0.
C12_PagerankMinMax ==
    Normalised =>
        IF AllEqual(pr)
        THEN \A i \in DOMAIN pagerank : pagerank[i] = Zero
        ELSE /\ \E i \in DOMAIN pagerank : pagerank[i] = Zero
             /\ \E i \in DOMAIN pagerank : pagerank[i] = One
             /\ \A i \in DOMAIN pagerank : InUnit(pagerank[i])

\* three documents with three different ranks: 0, 1 and one in between
C12_Witness ==
    /\ Normalised
    /\ Len(pagerank) = 3
    /\ \E i \in DOMAIN pagerank :
         RLess(Zero, pagerank[i]) /\ RLess(pagerank[i], One)

\* the iterations of compute_pagerank are over and the vector is not yet
\* normalised
Iterated ==
    /\ idx_pc = "pagerank"
    /\ docs # <<>>
    /\ pr_rounds = pagerank_iterations

\* |sum(pr) - 1| <= 10^-6, on the numerators over PrDen
SumIsOne ==
    Abs(SumSeq(pr) - PrDen(Len(docs), pr_rounds))
        <= PrDen(Len(docs), pr_rounds) \div 1000000

\* a document without an out-link inside the indexed set
Dangling == \E i \in DOMAIN graph_out : graph_out[i] = {}

\* C13 (as claimed): for every link graph, also one with documents without
\* out-links inside the indexed set, the PageRank vector sums to 1 within
\* 10^-6 after the configured iterations and before the normalisation.
C13_PagerankSumsToOne == Iterated => SumIsOne

\* C13 (amended): after the configured iterations and before the
\* normalisation the PageRank vector of a non-empty corpus sums to 1 within
\* 10^-6 when every document has an out-link inside the indexed set; when
\* some document has none, its share is lost at every iteration and the sum
\* is smaller than 1.
C13_PagerankSumsToOneUnlessDangling ==
    Iterated =>
        IF Dangling
        THEN SumSeq(pr) < PrDen(Len(docs), pr_rounds)
        ELSE SumIsOne

\* a graph without dangling documents, with a document of two out-links and
\* ranks that differ
C13_Witness ==
    /\ Iterated
    /\ ~Dangling
    /\ \E i \in DOMAIN graph_out : Cardinality(graph_out[i]) = 2
    /\ ~AllEqual(pr)

\* C16: tokenizing the space-joined output of tokenize gives the same token
\* list again, for the tokenizer of the indexer and for the tokenizer of the
\* searcher, and the two return the same list for every text.
C16_TokenizeIdempotent ==
    /\ tok_pc # "start" => tokens = s_tokens
    /\ tok_pc = "retokenized" =>
          /\ retokens = tokens
          /\ s_retokens = s_tokens

\* a text with upper case, punctuation, a short word and a stopword that
\* leaves two tokens
C16_Witness ==
    /\ tok_pc = "retokenized"
    /\ Len(tokens) = 2
    /\ Join(tokens) # text
    /\ \E k \in DOMAIN text : text[k] = "D"
    /\ retokens = tokens

\* C14: on an empty scraped log the indexer does not fail and leaves an
\* empty index file, and the searcher loaded from that index does not fail
\* and returns an empty result list for every query.
C14_EmptyRoundTrip ==
    scraped_file = <<>> =>
        /\ idx_pc # "crashed"
        /\ idx_pc = "done" => index_file = <<>>
        /\ search_pc # "crashed"
        /\ search_pc = "answered" => results = <<>>

\* the combined score of every loaded document for the last query
AllCombined == [i \in DOMAIN s_docs |-> Combined(i, bm25_scores)]
Before(o, x, y) == IF o = "desc" THEN RLess(y, x) ELSE RLess(x, y)

\* C15: a search with a query that keeps a token returns at most
\* results_limit results, in non-increasing order of the combined score
\* when order is "desc" and in non-decreasing order otherwise, and no
\* omitted document would sort strictly before a returned one.
C15_TopResultsInOrder ==
    (search_pc = "answered" /\ KeepsToken(query)) =>
        LET ac == AllCombined
            returned == {results[j].doc : j \in DOMAIN results}
        IN /\ Len(results) <= results_limit
           /\ \A j \in DOMAIN results :
                 /\ results[j].doc \in DOMAIN s_docs
                 /\ results[j].combined = ac[results[j].doc]
           /\ \A j, k \in DOMAIN results :
                 j < k => /\ results[j].doc # results[k].doc
                          /\ ~Before(order, results[k].combined,
                                     results[j].combined)
           /\ \A i \in DOMAIN s_docs \ returned :
                 \A j \in DOMAIN results :
                     ~Before(order, ac[i], results[j].combined)

\* an ascending search over three documents with three different scores
\* that returns two of them and leaves out the largest
C15_Witness ==
    /\ search_pc = "answered"
    /\ KeepsToken(query)
    /\ order = "asc"
    /\ Len(s_docs) = 3
    /\ Len(results) = 2
    /\ RLess(results[1].combined, results[2].combined)
    /\ \E i \in DOMAIN s_docs :
          /\ \A j \in DOMAIN results : results[j].doc # i
          /\ RLess(results[2].combined, AllCombined[i])

\* the items that a worker has taken from the queue and not acknowledged
Held == {w \in Workers : url[w] # 0}

\* C17: every URL removed from the queue is acknowledged exactly once (the
\* unacknowledged items are those still queued and those a worker holds),
\* and when all workers have exited the queue has no unacknowledged and no
\* undelivered item.
C17_QueueAccountingBalanced ==
    /\ unfinished = Len(queue) + Cardinality(Held)
    /\ (phase # "init" /\ \A w \in Workers : pc[w] = "done") =>
           (unfinished = 0 /\ queue = <<>>)

\* C18: a fetch attempt answered with status 200, with a body or with an
\* empty one, goes on to the append of a document and is not a permanent
\* failure.
C18_Status200IsSuccess ==
    \A w \in Workers :
        answer[w] \in {"page", "empty"} =>
            /\ pc[w] # "task_done"
            /\ url[w] \notin perm_failed

\* C19: once should_stop is set it stays set, no URL is added to the
\* visited set or dispatched, a worker that has dequeued an item only
\* acknowledges it and terminates, and no worker goes back to the dequeue.
C19_Step ==
    should_stop =>
        /\ should_stop'
        /\ visited_urls' = visited_urls
        /\ dispatched' = dispatched
        /\ \A w \in Workers :
              /\ (pc[w] = "got" /\ pc'[w] # "got") =>
                    /\ pc'[w] = "done"
                    /\ url'[w] = 0
                    /\ unfinished' = unfinished - 1
              /\ (pc[w] # "get" /\ pc'[w] = "get") => FALSE
              /\ (pc[w] = "done") => pc'[w] = "done"

C19_StopIsFinal == [][C19_Step]_vars

\* the stop flag is set while a worker holds a just dequeued URL that has
\* not been visited
C19_Witness ==
    /\ should_stop
    /\ \E w \in Workers :
          /\ pc[w] = "got"
          /\ url[w] # 0
          /\ url[w] \notin visited_urls

\* C20: the lines appended to the visited log are in the order in which
\* their URLs were inserted into the visited set.
C20_VisitedLogInInsertionOrder ==
    \A i, j \in DOMAIN AppendedVisited :
        i < j =>
            \E a, b \in DOMAIN dispatched :
                /\ a < b
                /\ dispatched[a] = AppendedVisited[i]
                /\ dispatched[b] = AppendedVisited[j]

\* two workers are in save_visited at once, one waiting for file_lock
\* behind the other, after an earlier line was appended
C20_Witness ==
    /\ Len(file_lock) = 2
    /\ \A w \in Workers : pc[w] = "save_visited"
    /\ Len(AppendedVisited) >= 1

\* the lines of the scraped log that a step appends
Flushed(old, new) == SubSeq(new, Len(old) + 1, Len(new))

\* C21: a flush that fails leaves its worker at the next statement of the
\* loop, and no flush writes to the scraped log a document that an earlier
\* flush of the run has written.
C21_Step ==
    /\ \A w \in Workers :
          (pc[w] = "flushing" /\ pc'[w] # "flushing") => pc'[w] = "enqueue"
    /\ Range(Flushed(scraped_file, scraped_file'))
           \cap Range(WrittenScraped) = {}

C21_NoRewriteAfterFailedFlush == [][C21_Step]_vars

\* the workers that have the answer of the robots cache for their URL
Judged == {w \in Workers : pc[w] = "robots_eval"}

\* C22: robots.txt is requested at most once from an origin; a URL is
\* judged only when the robots.txt of its own origin has been requested,
\* exactly once; and an answer with another status than 200 leaves a cached
\* policy that disallows nothing.
C22_OnePolicyPerOrigin ==
    /\ \A o \in ORIGINS : robots_requests[o] <= 1
    /\ \A w \in Judged :
          /\ robots_requests[Origin(url[w])] = 1
          /\ answer[w] = "robots_other" =>
                robots_cache[Host(url[w])] = {}

\* the URLs waiting in the queue or in the hands of a worker
Pending == Range(queue) \cup ({url[w] : w \in Workers} \ {0})

\* C23: while the stop flag is not set, a URL leaves the queue and the
\* hands of the workers only as a visited URL (dispatched, or skipped as
\* already visited), and every link that a worker enqueues is queued; and a
\* run that ends with the stop flag not set ends with an empty queue, no
\* URL in the hands of a worker and every seed visited.
C23_Step ==
    ~should_stop' =>
        /\ \A u \in Pending : u \in Pending' \cup visited_urls'
        /\ \A w \in Workers :
              (pc[w] = "enqueue" /\ pc'[w] # "enqueue") =>
                  \A l \in Range(data[w]) :
                      l \in Range(queue') \cup visited_urls'

C23_Ended ==
    (RunEnded /\ ~should_stop) =>
        /\ queue = <<>>
        /\ Pending = {}
        /\ Range(start_urls) \subseteq visited_urls

C23_NoWorkLost == []C23_Ended /\ [][C23_Step]_vars

\* a worker has left on a dequeue timeout, the stop flag is not set, and
\* the other worker is about to enqueue a link that has not been visited,
\* without reaching the quota
C23_Witness ==
    /\ ~should_stop
    /\ urls_crawled_count + 1 < max_total_urls
    /\ \E w, v \in Workers :
          /\ pc[w] = "done"
          /\ pc[v] = "enqueue"
          /\ \E l \in Range(data[v]) : l \notin visited_urls

====
